---- MODULE Spec2Model ----
(***************************************************************************)
(* Model of the payments_engine ledger (src/src/accounting).               *)
(*                                                                         *)
(* Monetary values (rust_decimal::Decimal) are modelled as integers that   *)
(* count the smallest unit in use; within the bounds below no Decimal      *)
(* operation rescales or overflows, so + and - are exact.                  *)
(***************************************************************************)
EXTENDS Integers, FiniteSets, Sequences, TLC

\* ------------------------------------------------------------------ bounds
\* at most MaxDeposits Deposit transactions are executed in one run; every
\* other transaction is unbounded (without new deposits the ledger is finite)
MaxDeposits == 2

\* the client identifiers, transaction identifiers and amounts of the input
ClientIds == {1, 2}
TxIds     == {1, 2}
Amounts   == {1, 2}

\* ------------------------------------------------------------- ledger state
\* liabilities, accounts, deposit_states: the fields of Ledger
\* lastTx, lastResult: the argument and the result of the last Ledger::execute
\* prev: the ledger as it was when that call started
\* lockedBefore: the clients whose account was locked in some state up to prev
\* nDeposits: how many Deposit transactions have been executed
\* depositedTx, depositedClients: the tx and client identifiers of the Deposit
\*   transactions executed so far
\* chargebacks: for each client, how many of its Chargeback transactions have
\*   succeeded
VARIABLES liabilities, accounts, deposit_states, lastTx, lastResult, prev,
          lockedBefore, nDeposits, depositedTx, depositedClients, chargebacks

\* ----------------------------------------------------------- pipeline state
\* input: the rows of the input file, as reader.deserialize() yields them
\* next_record: how many rows records.next() has yielded
\* fetched_tx: the row yielded last
\* converted: the result of converting that row into a Transaction
\* producer: where read_data stands ("next", "send" or "returned")
\* channel: the transactions in the mpsc queue, oldest first
\* main: where main stands ("recv", "execute", "output" or "returned")
\* received: the transaction main has received and not yet executed
\* enqueued, executed: the transactions sent into the channel and the
\*   transactions passed to Ledger::execute so far, in order
\* reported: the account logs written by each call of output_data
VARIABLES input, next_record, fetched_tx, converted, producer, channel, main,
          received, enqueued, executed, reported

ledger_vars == <<liabilities, accounts, deposit_states, lastTx, lastResult, prev,
                 lockedBefore, nDeposits, depositedTx, depositedClients,
                 chargebacks>>

pipeline_vars == <<input, next_record, fetched_tx, converted, producer, channel,
                   main, received, enqueued, executed, reported>>

vars == <<liabilities, accounts, deposit_states, lastTx, lastResult, prev,
          lockedBefore, nDeposits, depositedTx, depositedClients, chargebacks,
          input, next_record, fetched_tx, converted, producer, channel, main,
          received, enqueued, executed, reported>>

\* TxState
Resolved    == "Resolved"
Disputed    == "Disputed"
ChargedBack == "ChargedBack"

\* TxError
ClientAccountLocked   == "ClientAccountLocked"
InsufficientFunds     == "InsufficientFunds"
ClientAccountNotFound == "ClientAccountNotFound"
OriginTxNotFound      == "OriginTxNotFound"
TxAlreadyDisputed     == "TxAlreadyDisputed"
TxNotDisputed         == "TxNotDisputed"
Ok                    == "Ok"

TxError == {ClientAccountLocked, InsufficientFunds, ClientAccountNotFound,
            OriginTxNotFound, TxAlreadyDisputed, TxNotDisputed}

\* Transaction variants
Deposit(c, t, a)    == [type |-> "Deposit", client_id |-> c, tx_id |-> t, amount |-> a]
Withdrawal(c, t, a) == [type |-> "Withdrawal", client_id |-> c, tx_id |-> t, amount |-> a]
Dispute(c, t)       == [type |-> "Dispute", client_id |-> c, tx_id |-> t]
Resolve(c, t)       == [type |-> "Resolve", client_id |-> c, tx_id |-> t]
Chargeback(c, t)    == [type |-> "Chargeback", client_id |-> c, tx_id |-> t]

\* UserAccount::new
UserAccountNew(client_id) ==
    [client_id |-> client_id, available |-> 0, held |-> 0, locked |-> FALSE]

\* UserAccount::total
total(user_account) == user_account.available + user_account.held

\* DepositState::new
DepositStateNew(client_id, tx_id, amount) ==
    [client_id |-> client_id, tx_id |-> tx_id, amount |-> amount, state |-> Resolved]

\* HashMap::insert: the entry for key k becomes v, whether or not k was present
Insert(map, k, v) ==
    [x \in (DOMAIN map) \cup {k} |-> IF x = k THEN v ELSE map[x]]

\* Ledger::new
LedgerNew == [liabilities |-> 0, accounts |-> <<>>, deposit_states |-> <<>>]

\* the ledger as one value
Ledger == [liabilities |-> liabilities, accounts |-> accounts,
           deposit_states |-> deposit_states]

\* make_tx that debits the source and forgets to credit the destination
make_tx_no_credit(source, destination, amount) ==
    [source |-> source - amount, destination |-> destination]

\* make_tx: debit source, credit destination
make_tx(source, destination, amount) ==
    [source |-> source - amount, destination |-> destination + amount]

Return(result, ledger) == [result |-> result, ledger |-> ledger]

\* Deposit that inserts a fresh account instead of entry().or_insert()
DepositExecuteFreshAccount(self, ledger) ==
    LET client_account == UserAccountNew(self.client_id)
        m == make_tx(ledger.liabilities, client_account.available, self.amount)
    IN  Return(Ok,
          [liabilities |-> m.source,
           accounts |-> Insert(ledger.accounts, self.client_id,
                               [client_account EXCEPT !.available = m.destination]),
           deposit_states |-> Insert(ledger.deposit_states, self.tx_id,
                               DepositStateNew(self.client_id, self.tx_id, self.amount))])

\* Deposit that refuses a locked account, as the other transactions do
DepositExecuteLockChecked(self, ledger) ==
    LET client_account ==
            IF self.client_id \in DOMAIN ledger.accounts
            THEN ledger.accounts[self.client_id]
            ELSE UserAccountNew(self.client_id)
        m == make_tx(ledger.liabilities, client_account.available, self.amount)
    IN  IF client_account.locked
        THEN Return(ClientAccountLocked, ledger)
        ELSE Return(Ok,
          [liabilities |-> m.source,
           accounts |-> Insert(ledger.accounts, self.client_id,
                               [client_account EXCEPT !.available = m.destination]),
           deposit_states |-> Insert(ledger.deposit_states, self.tx_id,
                               DepositStateNew(self.client_id, self.tx_id, self.amount))])

\* Deposit that keeps the record its transaction identifier already has
DepositExecuteKeepsRecord(self, ledger) ==
    LET client_account ==
            IF self.client_id \in DOMAIN ledger.accounts
            THEN ledger.accounts[self.client_id]
            ELSE UserAccountNew(self.client_id)
        m == make_tx(ledger.liabilities, client_account.available, self.amount)
    IN  Return(Ok,
          [liabilities |-> m.source,
           accounts |-> Insert(ledger.accounts, self.client_id,
                               [client_account EXCEPT !.available = m.destination]),
           deposit_states |->
               IF self.tx_id \in DOMAIN ledger.deposit_states
               THEN ledger.deposit_states
               ELSE Insert(ledger.deposit_states, self.tx_id,
                           DepositStateNew(self.client_id, self.tx_id, self.amount))])

\* impl ExecutableTransaction for Deposit
DepositExecute(self, ledger) ==
    LET client_account ==
            IF self.client_id \in DOMAIN ledger.accounts
            THEN ledger.accounts[self.client_id]
            ELSE UserAccountNew(self.client_id)
        m == make_tx(ledger.liabilities, client_account.available, self.amount)
    IN  Return(Ok,
          [liabilities |-> m.source,
           accounts |-> Insert(ledger.accounts, self.client_id,
                               [client_account EXCEPT !.available = m.destination]),
           deposit_states |-> Insert(ledger.deposit_states, self.tx_id,
                               DepositStateNew(self.client_id, self.tx_id, self.amount))])

\* Withdrawal that looks its account up with entry().or_insert(), as Deposit does
WithdrawalExecuteCreatesAccount(self, ledger) ==
    LET client_account ==
            IF self.client_id \in DOMAIN ledger.accounts
            THEN ledger.accounts[self.client_id]
            ELSE UserAccountNew(self.client_id)
        m == make_tx(client_account.available, ledger.liabilities, self.amount)
        entered == [ledger EXCEPT
                      !.accounts = Insert(ledger.accounts, self.client_id, client_account)]
    IN  IF client_account.locked
        THEN Return(ClientAccountLocked, entered)
        ELSE IF client_account.available < self.amount
        THEN Return(InsufficientFunds, entered)
        ELSE Return(Ok,
               [entered EXCEPT
                  !.accounts[self.client_id].available = m.source,
                  !.liabilities = m.destination])

\* Withdrawal that debits before it checks the funds
WithdrawalExecuteDebitFirst(self, ledger) ==
    IF self.client_id \in DOMAIN ledger.accounts
    THEN LET client_account == ledger.accounts[self.client_id]
             m == make_tx(client_account.available, ledger.liabilities, self.amount)
             debited == [ledger EXCEPT
                           !.accounts[self.client_id].available = m.source,
                           !.liabilities = m.destination]
         IN  IF client_account.locked
             THEN Return(ClientAccountLocked, ledger)
             ELSE IF client_account.available < self.amount
             THEN Return(InsufficientFunds, debited)
             ELSE Return(Ok, debited)
    ELSE Return(ClientAccountNotFound, ledger)

\* Withdrawal that compares the amount with the total, held funds included
WithdrawalExecuteCountsHeld(self, ledger) ==
    IF self.client_id \in DOMAIN ledger.accounts
    THEN LET client_account == ledger.accounts[self.client_id]
             m == make_tx(client_account.available, ledger.liabilities, self.amount)
         IN  IF client_account.locked
             THEN Return(ClientAccountLocked, ledger)
             ELSE IF total(client_account) < self.amount
             THEN Return(InsufficientFunds, ledger)
             ELSE Return(Ok,
                    [ledger EXCEPT
                       !.accounts[self.client_id].available = m.source,
                       !.liabilities = m.destination])
    ELSE Return(ClientAccountNotFound, ledger)

\* Withdrawal that records its tx as a disputable deposit
WithdrawalExecuteRecordsTx(self, ledger) ==
    IF self.client_id \in DOMAIN ledger.accounts
    THEN LET client_account == ledger.accounts[self.client_id]
             m == make_tx(client_account.available, ledger.liabilities, self.amount)
         IN  IF client_account.locked
             THEN Return(ClientAccountLocked, ledger)
             ELSE IF client_account.available < self.amount
             THEN Return(InsufficientFunds, ledger)
             ELSE Return(Ok,
                    [liabilities |-> m.destination,
                     accounts |-> [ledger.accounts EXCEPT
                                     ![self.client_id].available = m.source],
                     deposit_states |-> Insert(ledger.deposit_states, self.tx_id,
                         DepositStateNew(self.client_id, self.tx_id, self.amount))])
    ELSE Return(ClientAccountNotFound, ledger)

\* Withdrawal without the locked check
WithdrawalExecuteNoLockCheck(self, ledger) ==
    IF self.client_id \in DOMAIN ledger.accounts
    THEN LET client_account == ledger.accounts[self.client_id]
             m == make_tx(client_account.available, ledger.liabilities, self.amount)
         IN  IF client_account.available < self.amount
             THEN Return(InsufficientFunds, ledger)
             ELSE Return(Ok,
                    [ledger EXCEPT
                       !.accounts[self.client_id].available = m.source,
                       !.liabilities = m.destination])
    ELSE Return(ClientAccountNotFound, ledger)

\* impl ExecutableTransaction for Withdrawal
WithdrawalExecute(self, ledger) ==
    IF self.client_id \in DOMAIN ledger.accounts
    THEN LET client_account == ledger.accounts[self.client_id]
             m == make_tx(client_account.available, ledger.liabilities, self.amount)
         IN  IF client_account.locked
             THEN Return(ClientAccountLocked, ledger)
             ELSE IF client_account.available < self.amount
             THEN Return(InsufficientFunds, ledger)
             ELSE Return(Ok,
                    [ledger EXCEPT
                       !.accounts[self.client_id].available = m.source,
                       !.liabilities = m.destination])
    ELSE Return(ClientAccountNotFound, ledger)

\* Dispute that looks the record up before it tests the locked flag
DisputeExecuteRecordFirst(self, ledger) ==
    IF self.client_id \in DOMAIN ledger.accounts
    THEN LET client_account == ledger.accounts[self.client_id]
         IN  IF self.tx_id \in DOMAIN ledger.deposit_states
             THEN LET deposit == ledger.deposit_states[self.tx_id]
                      m == make_tx(client_account.available, client_account.held,
                                   deposit.amount)
                  IN  IF deposit.tx_id # self.tx_id \/ deposit.client_id # self.client_id
                      THEN Return(OriginTxNotFound, ledger)
                      ELSE IF client_account.locked
                      THEN Return(ClientAccountLocked, ledger)
                      ELSE IF deposit.state # Resolved
                      THEN Return(TxAlreadyDisputed, ledger)
                      ELSE Return(Ok,
                             [ledger EXCEPT
                                !.deposit_states[self.tx_id].state = Disputed,
                                !.accounts[self.client_id].available = m.source,
                                !.accounts[self.client_id].held = m.destination])
             ELSE Return(OriginTxNotFound, ledger)
    ELSE Return(ClientAccountNotFound, ledger)

\* Dispute without the check of the record's state
DisputeExecuteNoStateCheck(self, ledger) ==
    IF self.client_id \in DOMAIN ledger.accounts
    THEN LET client_account == ledger.accounts[self.client_id]
         IN  IF client_account.locked
             THEN Return(ClientAccountLocked, ledger)
             ELSE IF self.tx_id \in DOMAIN ledger.deposit_states
             THEN LET deposit == ledger.deposit_states[self.tx_id]
                      m == make_tx(client_account.available, client_account.held,
                                   deposit.amount)
                  IN  IF deposit.tx_id # self.tx_id \/ deposit.client_id # self.client_id
                      THEN Return(OriginTxNotFound, ledger)
                      ELSE Return(Ok,
                             [ledger EXCEPT
                                !.deposit_states[self.tx_id].state = Disputed,
                                !.accounts[self.client_id].available = m.source,
                                !.accounts[self.client_id].held = m.destination])
             ELSE Return(OriginTxNotFound, ledger)
    ELSE Return(ClientAccountNotFound, ledger)

\* Dispute without the ownership check on the deposit record
DisputeExecuteNoOwnerCheck(self, ledger) ==
    IF self.client_id \in DOMAIN ledger.accounts
    THEN LET client_account == ledger.accounts[self.client_id]
         IN  IF client_account.locked
             THEN Return(ClientAccountLocked, ledger)
             ELSE IF self.tx_id \in DOMAIN ledger.deposit_states
             THEN LET deposit == ledger.deposit_states[self.tx_id]
                      m == make_tx(client_account.available, client_account.held,
                                   deposit.amount)
                  IN  IF deposit.state # Resolved
                      THEN Return(TxAlreadyDisputed, ledger)
                      ELSE Return(Ok,
                             [ledger EXCEPT
                                !.deposit_states[self.tx_id].state = Disputed,
                                !.accounts[self.client_id].available = m.source,
                                !.accounts[self.client_id].held = m.destination])
             ELSE Return(OriginTxNotFound, ledger)
    ELSE Return(ClientAccountNotFound, ledger)

\* Dispute that requires available >= the disputed amount
DisputeExecuteChecksFunds(self, ledger) ==
    IF self.client_id \in DOMAIN ledger.accounts
    THEN LET client_account == ledger.accounts[self.client_id]
         IN  IF client_account.locked
             THEN Return(ClientAccountLocked, ledger)
             ELSE IF self.tx_id \in DOMAIN ledger.deposit_states
             THEN LET deposit == ledger.deposit_states[self.tx_id]
                      m == make_tx(client_account.available, client_account.held,
                                   deposit.amount)
                  IN  IF deposit.tx_id # self.tx_id \/ deposit.client_id # self.client_id
                      THEN Return(OriginTxNotFound, ledger)
                      ELSE IF deposit.state # Resolved
                      THEN Return(TxAlreadyDisputed, ledger)
                      ELSE IF client_account.available < deposit.amount
                      THEN Return(InsufficientFunds, ledger)
                      ELSE Return(Ok,
                             [ledger EXCEPT
                                !.deposit_states[self.tx_id].state = Disputed,
                                !.accounts[self.client_id].available = m.source,
                                !.accounts[self.client_id].held = m.destination])
             ELSE Return(OriginTxNotFound, ledger)
    ELSE Return(ClientAccountNotFound, ledger)

\* impl ExecutableTransaction for Dispute
DisputeExecute(self, ledger) ==
    IF self.client_id \in DOMAIN ledger.accounts
    THEN LET client_account == ledger.accounts[self.client_id]
         IN  IF client_account.locked
             THEN Return(ClientAccountLocked, ledger)
             ELSE IF self.tx_id \in DOMAIN ledger.deposit_states
             THEN LET deposit == ledger.deposit_states[self.tx_id]
                      m == make_tx(client_account.available, client_account.held,
                                   deposit.amount)
                  IN  IF deposit.tx_id # self.tx_id \/ deposit.client_id # self.client_id
                      THEN Return(OriginTxNotFound, ledger)
                      ELSE IF deposit.state # Resolved
                      THEN Return(TxAlreadyDisputed, ledger)
                      ELSE Return(Ok,
                             [ledger EXCEPT
                                !.deposit_states[self.tx_id].state = Disputed,
                                !.accounts[self.client_id].available = m.source,
                                !.accounts[self.client_id].held = m.destination])
             ELSE Return(OriginTxNotFound, ledger)
    ELSE Return(ClientAccountNotFound, ledger)

\* Resolve without the locked check that refuses only a Resolved record
ResolveExecuteAnyUnresolved(self, ledger) ==
    IF self.client_id \in DOMAIN ledger.accounts
    THEN LET client_account == ledger.accounts[self.client_id]
         IN  IF self.tx_id \in DOMAIN ledger.deposit_states
             THEN LET deposit == ledger.deposit_states[self.tx_id]
                      m == make_tx(client_account.held, client_account.available,
                                   deposit.amount)
                  IN  IF deposit.tx_id # self.tx_id \/ deposit.client_id # self.client_id
                      THEN Return(OriginTxNotFound, ledger)
                      ELSE IF deposit.state = Resolved
                      THEN Return(TxNotDisputed, ledger)
                      ELSE Return(Ok,
                             [ledger EXCEPT
                                !.deposit_states[self.tx_id].state = Resolved,
                                !.accounts[self.client_id].held = m.source,
                                !.accounts[self.client_id].available = m.destination])
             ELSE Return(OriginTxNotFound, ledger)
    ELSE Return(ClientAccountNotFound, ledger)

\* Resolve that releases the funds and leaves the record Disputed
ResolveExecuteKeepsDisputed(self, ledger) ==
    IF self.client_id \in DOMAIN ledger.accounts
    THEN LET client_account == ledger.accounts[self.client_id]
         IN  IF client_account.locked
             THEN Return(ClientAccountLocked, ledger)
             ELSE IF self.tx_id \in DOMAIN ledger.deposit_states
             THEN LET deposit == ledger.deposit_states[self.tx_id]
                      m == make_tx(client_account.held, client_account.available,
                                   deposit.amount)
                  IN  IF deposit.tx_id # self.tx_id \/ deposit.client_id # self.client_id
                      THEN Return(OriginTxNotFound, ledger)
                      ELSE IF deposit.state # Disputed
                      THEN Return(TxNotDisputed, ledger)
                      ELSE Return(Ok,
                             [ledger EXCEPT
                                !.accounts[self.client_id].held = m.source,
                                !.accounts[self.client_id].available = m.destination])
             ELSE Return(OriginTxNotFound, ledger)
    ELSE Return(ClientAccountNotFound, ledger)

\* impl ExecutableTransaction for Resolve
ResolveExecute(self, ledger) ==
    IF self.client_id \in DOMAIN ledger.accounts
    THEN LET client_account == ledger.accounts[self.client_id]
         IN  IF client_account.locked
             THEN Return(ClientAccountLocked, ledger)
             ELSE IF self.tx_id \in DOMAIN ledger.deposit_states
             THEN LET deposit == ledger.deposit_states[self.tx_id]
                      m == make_tx(client_account.held, client_account.available,
                                   deposit.amount)
                  IN  IF deposit.tx_id # self.tx_id \/ deposit.client_id # self.client_id
                      THEN Return(OriginTxNotFound, ledger)
                      ELSE IF deposit.state # Disputed
                      THEN Return(TxNotDisputed, ledger)
                      ELSE Return(Ok,
                             [ledger EXCEPT
                                !.deposit_states[self.tx_id].state = Resolved,
                                !.accounts[self.client_id].held = m.source,
                                !.accounts[self.client_id].available = m.destination])
             ELSE Return(OriginTxNotFound, ledger)
    ELSE Return(ClientAccountNotFound, ledger)

\* Chargeback without the locked check
ChargebackExecuteNoLockCheck(self, ledger) ==
    IF self.client_id \in DOMAIN ledger.accounts
    THEN LET client_account == ledger.accounts[self.client_id]
         IN  IF self.tx_id \in DOMAIN ledger.deposit_states
             THEN LET deposit == ledger.deposit_states[self.tx_id]
                      m == make_tx(client_account.held, ledger.liabilities,
                                   deposit.amount)
                  IN  IF deposit.tx_id # self.tx_id \/ deposit.client_id # self.client_id
                      THEN Return(OriginTxNotFound, ledger)
                      ELSE IF deposit.state # Disputed
                      THEN Return(TxNotDisputed, ledger)
                      ELSE Return(Ok,
                             [ledger EXCEPT
                                !.deposit_states[self.tx_id].state = ChargedBack,
                                !.accounts[self.client_id].locked = TRUE,
                                !.accounts[self.client_id].held = m.source,
                                !.liabilities = m.destination])
             ELSE Return(OriginTxNotFound, ledger)
    ELSE Return(ClientAccountNotFound, ledger)

\* Chargeback that returns the held funds to available, as Resolve does
ChargebackExecuteRefunds(self, ledger) ==
    IF self.client_id \in DOMAIN ledger.accounts
    THEN LET client_account == ledger.accounts[self.client_id]
         IN  IF client_account.locked
             THEN Return(ClientAccountLocked, ledger)
             ELSE IF self.tx_id \in DOMAIN ledger.deposit_states
             THEN LET deposit == ledger.deposit_states[self.tx_id]
                      m == make_tx(client_account.held, client_account.available,
                                   deposit.amount)
                  IN  IF deposit.tx_id # self.tx_id \/ deposit.client_id # self.client_id
                      THEN Return(OriginTxNotFound, ledger)
                      ELSE IF deposit.state # Disputed
                      THEN Return(TxNotDisputed, ledger)
                      ELSE Return(Ok,
                             [ledger EXCEPT
                                !.deposit_states[self.tx_id].state = ChargedBack,
                                !.accounts[self.client_id].locked = TRUE,
                                !.accounts[self.client_id].held = m.source,
                                !.accounts[self.client_id].available = m.destination])
             ELSE Return(OriginTxNotFound, ledger)
    ELSE Return(ClientAccountNotFound, ledger)

\* Chargeback that drops the record of the reversed deposit
ChargebackExecuteRemovesRecord(self, ledger) ==
    IF self.client_id \in DOMAIN ledger.accounts
    THEN LET client_account == ledger.accounts[self.client_id]
         IN  IF client_account.locked
             THEN Return(ClientAccountLocked, ledger)
             ELSE IF self.tx_id \in DOMAIN ledger.deposit_states
             THEN LET deposit == ledger.deposit_states[self.tx_id]
                      m == make_tx(client_account.held, ledger.liabilities,
                                   deposit.amount)
                  IN  IF deposit.tx_id # self.tx_id \/ deposit.client_id # self.client_id
                      THEN Return(OriginTxNotFound, ledger)
                      ELSE IF deposit.state # Disputed
                      THEN Return(TxNotDisputed, ledger)
                      ELSE Return(Ok,
                             [liabilities |-> m.destination,
                              accounts |-> [ledger.accounts EXCEPT
                                              ![self.client_id].locked = TRUE,
                                              ![self.client_id].held = m.source],
                              deposit_states |->
                                  [t \in DOMAIN ledger.deposit_states \ {self.tx_id} |->
                                      ledger.deposit_states[t]]])
             ELSE Return(OriginTxNotFound, ledger)
    ELSE Return(ClientAccountNotFound, ledger)

\* Chargeback that does not lock the account
ChargebackExecuteLeavesUnlocked(self, ledger) ==
    IF self.client_id \in DOMAIN ledger.accounts
    THEN LET client_account == ledger.accounts[self.client_id]
         IN  IF client_account.locked
             THEN Return(ClientAccountLocked, ledger)
             ELSE IF self.tx_id \in DOMAIN ledger.deposit_states
             THEN LET deposit == ledger.deposit_states[self.tx_id]
                      m == make_tx(client_account.held, ledger.liabilities,
                                   deposit.amount)
                  IN  IF deposit.tx_id # self.tx_id \/ deposit.client_id # self.client_id
                      THEN Return(OriginTxNotFound, ledger)
                      ELSE IF deposit.state # Disputed
                      THEN Return(TxNotDisputed, ledger)
                      ELSE Return(Ok,
                             [ledger EXCEPT
                                !.deposit_states[self.tx_id].state = ChargedBack,
                                !.accounts[self.client_id].held = m.source,
                                !.liabilities = m.destination])
             ELSE Return(OriginTxNotFound, ledger)
    ELSE Return(ClientAccountNotFound, ledger)

\* Chargeback that charges the owner of the record, whoever names it
ChargebackExecuteChargesOwner(self, ledger) ==
    IF self.client_id \in DOMAIN ledger.accounts
    THEN LET client_account == ledger.accounts[self.client_id]
         IN  IF client_account.locked
             THEN Return(ClientAccountLocked, ledger)
             ELSE IF self.tx_id \in DOMAIN ledger.deposit_states
             THEN LET deposit == ledger.deposit_states[self.tx_id]
                      owner_account == ledger.accounts[deposit.client_id]
                      m == make_tx(owner_account.held, ledger.liabilities,
                                   deposit.amount)
                  IN  IF deposit.tx_id # self.tx_id
                      THEN Return(OriginTxNotFound, ledger)
                      ELSE IF deposit.state # Disputed
                      THEN Return(TxNotDisputed, ledger)
                      ELSE Return(Ok,
                             [ledger EXCEPT
                                !.deposit_states[self.tx_id].state = ChargedBack,
                                !.accounts[deposit.client_id].locked = TRUE,
                                !.accounts[deposit.client_id].held = m.source,
                                !.liabilities = m.destination])
             ELSE Return(OriginTxNotFound, ledger)
    ELSE Return(ClientAccountNotFound, ledger)

\* impl ExecutableTransaction for Chargeback
ChargebackExecute(self, ledger) ==
    IF self.client_id \in DOMAIN ledger.accounts
    THEN LET client_account == ledger.accounts[self.client_id]
         IN  IF client_account.locked
             THEN Return(ClientAccountLocked, ledger)
             ELSE IF self.tx_id \in DOMAIN ledger.deposit_states
             THEN LET deposit == ledger.deposit_states[self.tx_id]
                      m == make_tx(client_account.held, ledger.liabilities,
                                   deposit.amount)
                  IN  IF deposit.tx_id # self.tx_id \/ deposit.client_id # self.client_id
                      THEN Return(OriginTxNotFound, ledger)
                      ELSE IF deposit.state # Disputed
                      THEN Return(TxNotDisputed, ledger)
                      ELSE Return(Ok,
                             [ledger EXCEPT
                                !.deposit_states[self.tx_id].state = ChargedBack,
                                !.accounts[self.client_id].locked = TRUE,
                                !.accounts[self.client_id].held = m.source,
                                !.liabilities = m.destination])
             ELSE Return(OriginTxNotFound, ledger)
    ELSE Return(ClientAccountNotFound, ledger)

\* enum_dispatch over Transaction: Ledger::execute delegates to execute_tx
execute(ledger, tx) ==
    CASE tx.type = "Deposit"    -> DepositExecute(tx, ledger)
      [] tx.type = "Withdrawal" -> WithdrawalExecute(tx, ledger)
      [] tx.type = "Dispute"    -> DisputeExecute(tx, ledger)
      [] tx.type = "Resolve"    -> ResolveExecute(tx, ledger)
      [] tx.type = "Chargeback" -> ChargebackExecute(tx, ledger)

\* clients whose account is locked in the given account map
LockedIn(accs) == {c \in DOMAIN accs : accs[c].locked}

\* one call ledger.execute(&tx): the ledger becomes the returned ledger, the
\* call's transaction and result are recorded
Apply(tx) ==
    LET r == execute(Ledger, tx)
    IN  /\ liabilities' = r.ledger.liabilities
        /\ accounts' = r.ledger.accounts
        /\ deposit_states' = r.ledger.deposit_states
        /\ lastTx' = tx
        /\ lastResult' = r.result
        /\ prev' = Ledger
        /\ lockedBefore' = lockedBefore \cup LockedIn(accounts)
        /\ chargebacks' =
               IF tx.type = "Chargeback" /\ r.result = Ok
               THEN [chargebacks EXCEPT ![tx.client_id] = @ + 1]
               ELSE chargebacks

\* no row fetched, no conversion made, no transaction received
NoRow == [none |-> TRUE]

\* the pipeline before main has created the channel
PipelineIdle ==
    /\ input = <<>>
    /\ next_record = 0
    /\ fetched_tx = NoRow
    /\ converted = NoRow
    /\ producer = "idle"
    /\ channel = <<>>
    /\ main = "idle"
    /\ received = NoRow
    /\ enqueued = <<>>
    /\ executed = <<>>
    /\ reported = <<>>

\* let mut ledger = Ledger::new(), and nothing executed yet
LedgerInit ==
    /\ liabilities = LedgerNew.liabilities
    /\ accounts = LedgerNew.accounts
    /\ deposit_states = LedgerNew.deposit_states
    /\ lastTx = [type |-> "None"]
    /\ lastResult = "None"
    /\ prev = LedgerNew
    /\ lockedBefore = {}
    /\ nDeposits = 0
    /\ depositedTx = {}
    /\ depositedClients = {}
    /\ chargebacks = [c \in ClientIds |-> 0]

Init == LedgerInit /\ PipelineIdle

ExecuteDeposit ==
    \E c \in ClientIds, t \in TxIds, a \in Amounts :
        /\ nDeposits < MaxDeposits
        /\ nDeposits' = nDeposits + 1
        /\ depositedTx' = depositedTx \cup {t}
        /\ depositedClients' = depositedClients \cup {c}
        /\ Apply(Deposit(c, t, a))
        /\ UNCHANGED pipeline_vars

ExecuteWithdrawal ==
    \E c \in ClientIds, t \in TxIds, a \in Amounts :
        Apply(Withdrawal(c, t, a)) /\ UNCHANGED <<nDeposits, depositedTx, depositedClients>>
                                   /\ UNCHANGED pipeline_vars

ExecuteDispute ==
    \E c \in ClientIds, t \in TxIds :
        Apply(Dispute(c, t)) /\ UNCHANGED <<nDeposits, depositedTx, depositedClients>>
                                   /\ UNCHANGED pipeline_vars

ExecuteResolve ==
    \E c \in ClientIds, t \in TxIds :
        Apply(Resolve(c, t)) /\ UNCHANGED <<nDeposits, depositedTx, depositedClients>>
                                   /\ UNCHANGED pipeline_vars

ExecuteChargeback ==
    \E c \in ClientIds, t \in TxIds :
        Apply(Chargeback(c, t)) /\ UNCHANGED <<nDeposits, depositedTx, depositedClients>>
                                   /\ UNCHANGED pipeline_vars

Next ==
    \/ ExecuteDeposit
    \/ ExecuteWithdrawal
    \/ ExecuteDispute
    \/ ExecuteResolve
    \/ ExecuteChargeback

Spec == Init /\ [][Next]_vars

\* --------------------------------------------- record -> transaction (serde)
DEPOSIT_TAG    == "deposit"
WITHDRAWAL_TAG == "withdrawal"
DISPUTE_TAG    == "dispute"
RESOLVE_TAG    == "resolve"
CHARGEBACK_TAG == "chargeback"

\* TransactionLogError
InvalidTxType == "InvalidTxType"
MissingAmount == "MissingAmount"

\* Option<Decimal>
None    == <<>>
Some(a) == <<a>>

\* the values of the type column: the five tags, a tag in another case and a
\* word that is no tag
TxTypes == {DEPOSIT_TAG, WITHDRAWAL_TAG, DISPUTE_TAG, RESOLVE_TAG, CHARGEBACK_TAG,
            "Deposit", "transfer"}

\* struct TransactionLog
TransactionLogs ==
    [tx_type : TxTypes, client_id : ClientIds, tx_id : TxIds,
     amount : {None} \cup {Some(a) : a \in Amounts}]

\* Result<Transaction, TransactionLogError>
Converted(transaction) == [ok |-> TRUE, value |-> transaction]
Failed(error)          == [ok |-> FALSE, error |-> error]

\* the type column in lower case
Lowercase(tx_type) == IF tx_type = "Deposit" THEN "deposit" ELSE tx_type

\* conversion that matches the tags without regard to case
try_from_ignores_case(log) ==
    CASE Lowercase(log.tx_type) = DEPOSIT_TAG ->
            IF log.amount = None THEN Failed(MissingAmount)
            ELSE Converted(Deposit(log.client_id, log.tx_id, log.amount[1]))
      [] Lowercase(log.tx_type) = WITHDRAWAL_TAG ->
            IF log.amount = None THEN Failed(MissingAmount)
            ELSE Converted(Withdrawal(log.client_id, log.tx_id, log.amount[1]))
      [] Lowercase(log.tx_type) = DISPUTE_TAG ->
            Converted(Dispute(log.client_id, log.tx_id))
      [] Lowercase(log.tx_type) = RESOLVE_TAG ->
            Converted(Resolve(log.client_id, log.tx_id))
      [] Lowercase(log.tx_type) = CHARGEBACK_TAG ->
            Converted(Chargeback(log.client_id, log.tx_id))
      [] OTHER -> Failed(InvalidTxType)

\* impl TryFrom<TransactionLog> for Transaction
try_from(log) ==
    CASE log.tx_type = DEPOSIT_TAG ->
            IF log.amount = None THEN Failed(MissingAmount)
            ELSE Converted(Deposit(log.client_id, log.tx_id, log.amount[1]))
      [] log.tx_type = WITHDRAWAL_TAG ->
            IF log.amount = None THEN Failed(MissingAmount)
            ELSE Converted(Withdrawal(log.client_id, log.tx_id, log.amount[1]))
      [] log.tx_type = DISPUTE_TAG -> Converted(Dispute(log.client_id, log.tx_id))
      [] log.tx_type = RESOLVE_TAG -> Converted(Resolve(log.client_id, log.tx_id))
      [] log.tx_type = CHARGEBACK_TAG -> Converted(Chargeback(log.client_id, log.tx_id))
      [] OTHER -> Failed(InvalidTxType)

\* the conversion on its own: one TransactionLog, converted once
ConversionInit ==
    /\ LedgerInit
    /\ fetched_tx \in TransactionLogs
    /\ input = <<>> /\ next_record = 0 /\ converted = NoRow
    /\ producer = "idle" /\ channel = <<>> /\ main = "idle" /\ received = NoRow
    /\ enqueued = <<>> /\ executed = <<>> /\ reported = <<>>

Convert ==
    /\ converted = NoRow
    /\ converted' = try_from(fetched_tx)
    /\ UNCHANGED <<ledger_vars, input, next_record, fetched_tx, producer, channel,
                   main, received, enqueued, executed, reported>>

ConversionNext == Convert

ConversionSpec == ConversionInit /\ [][ConversionNext]_vars

\* ------------------------------------------------- pipeline (lib.rs, main.rs)
\* the capacity of the channel, scaled down from the 4096 of main.rs so that
\* a full queue is reached
CHANNEL_SIZE == 2

\* the longest input file, in rows
MaxInput == 3

\* a row that reader.deserialize::<TransactionLog>() fails on
DeserializeError == [error |-> "csv"]

TransactionLog(tx_type, client_id, tx_id, amount) ==
    [tx_type |-> tx_type, client_id |-> client_id, tx_id |-> tx_id, amount |-> amount]

\* the rows of the input files: three well-formed records (a deposit, a
\* withdrawal larger than it, a dispute of it) and one row for each way of
\* failing to decode
Rows ==
    { TransactionLog(DEPOSIT_TAG, 1, 1, Some(1)),
      TransactionLog(WITHDRAWAL_TAG, 1, 2, Some(2)),
      TransactionLog(DISPUTE_TAG, 1, 1, None),
      TransactionLog(DEPOSIT_TAG, 1, 2, None),
      TransactionLog("Deposit", 1, 1, Some(1)),
      DeserializeError }

Inputs == UNION {[1..n -> Rows] : n \in 0..MaxInput}

\* fetched_tx.map_err(|_err| InvalidTxType).and_then(Transaction::try_from)
Decode(fetched) ==
    IF fetched = DeserializeError THEN Failed(InvalidTxType) ELSE try_from(fetched)

\* impl From<&UserAccount> for AccountLog
AccountLogFrom(user_account) ==
    [client_id |-> user_account.client_id,
     available |-> user_account.available,
     held |-> user_account.held,
     total |-> total(user_account),
     locked |-> user_account.locked]

\* the account logs output_data collects from ledger.accounts_iter()
AccountLogs(accs) == {AccountLogFrom(accs[c]) : c \in DOMAIN accs}

\* main has created the channel and the ledger and spawned read_data
PipelineInit ==
    /\ LedgerInit
    /\ input \in Inputs
    /\ next_record = 0
    /\ fetched_tx = NoRow
    /\ converted = NoRow
    /\ producer = "next"
    /\ channel = <<>>
    /\ main = "recv"
    /\ received = NoRow
    /\ enqueued = <<>>
    /\ executed = <<>>
    /\ reported = <<>>

\* read_data that gives up at the first row it cannot decode
ProducerFetchStopsOnError ==
    /\ producer = "next"
    /\ next_record < Len(input)
    /\ next_record' = next_record + 1
    /\ fetched_tx' = input[next_record + 1]
    /\ converted' = Decode(input[next_record + 1])
    /\ producer' = IF Decode(input[next_record + 1]).ok THEN "send" ELSE "returned"
    /\ UNCHANGED <<ledger_vars, input, channel, main, received, enqueued, executed,
                   reported>>

\* read_data: records.next() yields a row, which is decoded; a decoded
\* transaction goes on to sender.send, any other row is skipped
ProducerFetch ==
    /\ producer = "next"
    /\ next_record < Len(input)
    /\ next_record' = next_record + 1
    /\ fetched_tx' = input[next_record + 1]
    /\ converted' = Decode(input[next_record + 1])
    /\ producer' = IF Decode(input[next_record + 1]).ok THEN "send" ELSE "next"
    /\ UNCHANGED <<ledger_vars, input, channel, main, received, enqueued, executed,
                   reported>>

\* read_data that returns while another handle keeps the channel open
ProducerReturnKeepsSender ==
    /\ producer = "next"
    /\ next_record = Len(input)
    /\ producer' = "finished"
    /\ UNCHANGED <<ledger_vars, input, next_record, fetched_tx, converted, channel,
                   main, received, enqueued, executed, reported>>

\* read_data: records.next() yields None, the function returns and its
\* sender is dropped
ProducerReturn ==
    /\ producer = "next"
    /\ next_record = Len(input)
    /\ producer' = "returned"
    /\ UNCHANGED <<ledger_vars, input, next_record, fetched_tx, converted, channel,
                   main, received, enqueued, executed, reported>>

\* a send into a channel without capacity limit
ProducerSendUnbounded ==
    /\ producer = "send"
    /\ channel' = Append(channel, converted.value)
    /\ enqueued' = Append(enqueued, converted.value)
    /\ producer' = "next"
    /\ UNCHANGED <<ledger_vars, input, next_record, fetched_tx, converted, main,
                   received, executed, reported>>

\* read_data: sender.send(tx).await completes once the channel has room
ProducerSend ==
    /\ producer = "send"
    /\ Len(channel) < CHANNEL_SIZE
    /\ channel' = Append(channel, converted.value)
    /\ enqueued' = Append(enqueued, converted.value)
    /\ producer' = "next"
    /\ UNCHANGED <<ledger_vars, input, next_record, fetched_tx, converted, main,
                   received, executed, reported>>

\* a receive that takes the newest transaction of the queue
MainRecvNewest ==
    /\ main = "recv"
    /\ channel # <<>>
    /\ received' = channel[Len(channel)]
    /\ channel' = SubSeq(channel, 1, Len(channel) - 1)
    /\ main' = "execute"
    /\ UNCHANGED <<ledger_vars, input, next_record, fetched_tx, converted, producer,
                   enqueued, executed, reported>>

\* main: receiver.recv().await yields Some(tx), the oldest of the queue
MainRecv ==
    /\ main = "recv"
    /\ channel # <<>>
    /\ received' = Head(channel)
    /\ channel' = Tail(channel)
    /\ main' = "execute"
    /\ UNCHANGED <<ledger_vars, input, next_record, fetched_tx, converted, producer,
                   enqueued, executed, reported>>

\* a loop that ends as soon as the queue is found empty
MainRecvEmptyEnds ==
    /\ main = "recv"
    /\ channel = <<>>
    /\ main' = "output"
    /\ UNCHANGED <<ledger_vars, input, next_record, fetched_tx, converted, producer,
                   channel, received, enqueued, executed, reported>>

\* main: receiver.recv().await yields None, the queue being empty and the
\* sender dropped; the loop ends
MainRecvNone ==
    /\ main = "recv"
    /\ channel = <<>>
    /\ producer = "returned"
    /\ main' = "output"
    /\ UNCHANGED <<ledger_vars, input, next_record, fetched_tx, converted, producer,
                   channel, received, enqueued, executed, reported>>

\* the bookkeeping of the executed deposits
CountDeposit(transaction) ==
    IF transaction.type = "Deposit"
    THEN /\ nDeposits' = nDeposits + 1
         /\ depositedTx' = depositedTx \cup {transaction.tx_id}
         /\ depositedClients' = depositedClients \cup {transaction.client_id}
    ELSE UNCHANGED <<nDeposits, depositedTx, depositedClients>>

\* a loop that sends a rejected transaction back into the queue
MainExecuteRetries ==
    /\ main = "execute"
    /\ Apply(received)
    /\ CountDeposit(received)
    /\ executed' = Append(executed, received)
    /\ channel' = IF execute(Ledger, received).result = Ok
                  THEN channel ELSE Append(channel, received)
    /\ received' = NoRow
    /\ main' = "recv"
    /\ UNCHANGED <<input, next_record, fetched_tx, converted, producer,
                   enqueued, reported>>

\* main: ledger.execute(&tx).ok()
MainExecute ==
    /\ main = "execute"
    /\ Apply(received)
    /\ CountDeposit(received)
    /\ executed' = Append(executed, received)
    /\ received' = NoRow
    /\ main' = "recv"
    /\ UNCHANGED <<input, next_record, fetched_tx, converted, producer, channel,
                   enqueued, reported>>

\* main: payments_engine::output_data(&ledger).await, then main returns
MainOutput ==
    /\ main = "output"
    /\ reported' = Append(reported, AccountLogs(accounts))
    /\ main' = "returned"
    /\ UNCHANGED <<ledger_vars, input, next_record, fetched_tx, converted, producer,
                   channel, received, enqueued, executed>>

\* the task spawned on read_data
Producer == ProducerFetch \/ ProducerSend \/ ProducerReturn

\* the main task
Main == MainRecv \/ MainRecvNone \/ MainExecute \/ MainOutput

PipelineNext ==
    \/ ProducerFetch
    \/ ProducerSend
    \/ ProducerReturn
    \/ MainRecv
    \/ MainRecvNone
    \/ MainExecute
    \/ MainOutput

PipelineSpec == PipelineInit /\ [][PipelineNext]_vars

\* the runtime runs each task that can take a step
FairPipelineSpec == PipelineSpec /\ WF_vars(Producer) /\ WF_vars(Main)

\* ------------------------------------------------------------ helper views
RECURSIVE SumTotals(_, _)
SumTotals(accs, S) ==
    IF S = {} THEN 0
    ELSE LET c == CHOOSE x \in S : TRUE
         IN  total(accs[c]) + SumTotals(accs, S \ {c})

\* the account of client c in ledger l, or the zero-balance unlocked account a
\* first deposit would create
AccountOrNew(l, c) ==
    IF c \in DOMAIN l.accounts THEN l.accounts[c] ELSE UserAccountNew(c)

\* the last call was transaction type ty
Last(ty) == lastTx.type = ty

\* the last call named a deposit record that existed and was owned by its client
LastOwnsRecord ==
    /\ lastTx.tx_id \in DOMAIN prev.deposit_states
    /\ prev.deposit_states[lastTx.tx_id].client_id = lastTx.client_id

\* ------------------------------------------------------------------ claims

\* C1: conservation -- in every reachable ledger state, liabilities plus the
\* sum over all accounts of available + held is 0
Conservation ==
    liabilities + SumTotals(accounts, DOMAIN accounts) = 0

\* a chargeback of withdrawn money has just succeeded: the client's total is
\* negative and liabilities positive
ConservationWitness ==
    /\ Last("Chargeback") /\ lastResult = Ok
    /\ liabilities > 0
    /\ total(accounts[lastTx.client_id]) < 0

\* C2: a call that returns a TxError leaves the whole ledger as it was
NoPartialMutationOnFailure ==
    lastResult \in TxError => Ledger = prev

\* a withdrawal was refused for lack of funds on an account holding disputed money
NoPartialMutationWitness ==
    /\ Last("Withdrawal") /\ lastResult = InsufficientFunds
    /\ prev.accounts[lastTx.client_id].held > 0
    /\ prev.liabilities # 0

\* what Deposit tx does to ledger `before`, r being the call's result and ledger
DepositEffect(tx, before, r) ==
    LET old == AccountOrNew(before, tx.client_id)
    IN  /\ r.result = Ok
        /\ tx.client_id \in DOMAIN r.ledger.accounts
        /\ r.ledger.accounts[tx.client_id].available = old.available + tx.amount
        /\ r.ledger.accounts[tx.client_id].held = old.held
        /\ r.ledger.accounts[tx.client_id].locked = old.locked
        /\ r.ledger.liabilities = before.liabilities - tx.amount
        /\ tx.tx_id \in DOMAIN r.ledger.deposit_states
        /\ r.ledger.deposit_states[tx.tx_id].client_id = tx.client_id
        /\ r.ledger.deposit_states[tx.tx_id].amount = tx.amount
        /\ r.ledger.deposit_states[tx.tx_id].state = Resolved

\* C3: a Deposit succeeds in every reachable state (locked account, no account
\* yet): the account exists afterwards, available grows by amount, liabilities
\* shrinks by amount, held and locked keep their values (0 and false when new)
\* and the record for tx is (client, amount, Resolved). Stated of the deposit
\* just executed and of every deposit that could be executed next.
DepositAlwaysSucceeds ==
    /\ Last("Deposit") => DepositEffect(lastTx, prev, Return(lastResult, Ledger))
    /\ \A c \in ClientIds, t \in TxIds, a \in Amounts :
          DepositEffect(Deposit(c, t, a), Ledger, execute(Ledger, Deposit(c, t, a)))

\* a deposit has been made to a locked account, over an existing record
DepositWitness ==
    /\ Last("Deposit") /\ lastResult = Ok
    /\ lastTx.client_id \in DOMAIN prev.accounts
    /\ prev.accounts[lastTx.client_id].locked
    /\ lastTx.tx_id \in DOMAIN prev.deposit_states

\* C4: Withdrawal fails with ClientAccountNotFound without an account, else with
\* ClientAccountLocked when locked, else with InsufficientFunds when
\* available < amount (held does not count), and succeeds otherwise
WithdrawalOutcome ==
    Last("Withdrawal") =>
        lastResult =
            IF lastTx.client_id \notin DOMAIN prev.accounts THEN ClientAccountNotFound
            ELSE IF prev.accounts[lastTx.client_id].locked THEN ClientAccountLocked
            ELSE IF prev.accounts[lastTx.client_id].available < lastTx.amount
                 THEN InsufficientFunds
            ELSE Ok

\* a withdrawal the total would have covered was refused: the money is held
WithdrawalOutcomeWitness ==
    /\ Last("Withdrawal") /\ lastResult = InsufficientFunds
    /\ total(prev.accounts[lastTx.client_id]) >= lastTx.amount

\* C5: a successful Withdrawal takes amount from available and adds it to
\* liabilities, leaves held and locked alone, leaves available >= 0 and
\* creates or changes no deposit record
WithdrawalEffect ==
    (Last("Withdrawal") /\ lastResult = Ok) =>
        LET old == prev.accounts[lastTx.client_id]
            new == accounts[lastTx.client_id]
        IN  /\ new.available = old.available - lastTx.amount
            /\ liabilities = prev.liabilities + lastTx.amount
            /\ new.held = old.held
            /\ new.locked = old.locked
            /\ new.available >= 0
            /\ deposit_states = prev.deposit_states

\* a withdrawal succeeded under a tx identifier no deposit has used
WithdrawalEffectWitness ==
    /\ Last("Withdrawal") /\ lastResult = Ok
    /\ lastTx.tx_id \notin DOMAIN deposit_states
    /\ deposit_states # <<>>

\* C6: once an account has been locked, every later Withdrawal on that client
\* fails with ClientAccountLocked whatever amount and available are, and every
\* later Deposit to it succeeds and credits available
LockedBarsWithdrawalOnly ==
    lastTx.type \in {"Withdrawal", "Deposit"} /\ lastTx.client_id \in lockedBefore =>
        /\ Last("Withdrawal") =>
              lastResult = ClientAccountLocked /\ Ledger = prev
        /\ Last("Deposit") =>
              /\ lastResult = Ok
              /\ accounts[lastTx.client_id].available =
                    prev.accounts[lastTx.client_id].available + lastTx.amount

\* a withdrawal the available balance covers was refused on a locked account
LockedBarsWithdrawalWitness ==
    /\ Last("Withdrawal") /\ lastTx.client_id \in lockedBefore
    /\ prev.accounts[lastTx.client_id].available >= lastTx.amount

\* C7: the locked flag is monotonic -- an account locked in some earlier state
\* exists and is locked now
LockedMonotonic ==
    \A c \in lockedBefore : c \in DOMAIN accounts /\ accounts[c].locked

\* a deposit, the one transaction that touches the account entry, reached a
\* locked account
LockedMonotonicWitness ==
    /\ Last("Deposit") /\ lastTx.client_id \in lockedBefore
    /\ nDeposits = MaxDeposits

\* C8: Dispute on an existing unlocked account whose record for tx is its own
\* and Resolved succeeds whatever available is: the record becomes Disputed,
\* available loses the recorded amount, held gains it, total, locked and
\* liabilities stay
DisputeEffect ==
    ( /\ Last("Dispute")
      /\ lastTx.client_id \in DOMAIN prev.accounts
      /\ ~prev.accounts[lastTx.client_id].locked
      /\ LastOwnsRecord
      /\ prev.deposit_states[lastTx.tx_id].state = Resolved ) =>
        LET old == prev.accounts[lastTx.client_id]
            new == accounts[lastTx.client_id]
            amount == prev.deposit_states[lastTx.tx_id].amount
        IN  /\ lastResult = Ok
            /\ deposit_states[lastTx.tx_id].state = Disputed
            /\ new.available = old.available - amount
            /\ new.held = old.held + amount
            /\ total(new) = total(old)
            /\ new.locked = old.locked
            /\ liabilities = prev.liabilities

\* a dispute succeeded although available was below the disputed amount
DisputeEffectWitness ==
    /\ Last("Dispute") /\ lastResult = Ok
    /\ prev.accounts[lastTx.client_id].available
          < prev.deposit_states[lastTx.tx_id].amount
    /\ accounts[lastTx.client_id].available < 0

\* C9: Dispute naming a record owned by the client whose state is not Resolved
\* (Disputed or ChargedBack) fails with TxAlreadyDisputed and changes nothing
DisputeOfUnresolvedIsAlreadyDisputed ==
    ( /\ Last("Dispute")
      /\ LastOwnsRecord
      /\ prev.deposit_states[lastTx.tx_id].state # Resolved ) =>
        lastResult = TxAlreadyDisputed /\ Ledger = prev

\* C10: Resolve naming a record owned by the client fails with TxNotDisputed
\* when the state is not Disputed; when it is Disputed and the account is
\* unlocked it succeeds, the state becomes Resolved, held loses the recorded
\* amount, available gains it, liabilities and locked stay
ResolveOutcome ==
    (Last("Resolve") /\ LastOwnsRecord) =>
        LET old == prev.accounts[lastTx.client_id]
            new == accounts[lastTx.client_id]
            deposit == prev.deposit_states[lastTx.tx_id]
        IN  /\ deposit.state # Disputed => lastResult = TxNotDisputed
            /\ (deposit.state = Disputed /\ ~old.locked) =>
                  /\ lastResult = Ok
                  /\ deposit_states[lastTx.tx_id].state = Resolved
                  /\ new.held = old.held - deposit.amount
                  /\ new.available = old.available + deposit.amount
                  /\ liabilities = prev.liabilities
                  /\ new.locked = old.locked

\* C11: a successful Chargeback names a record owned by the client and
\* Disputed; it sets the record to ChargedBack, locks the account, takes the
\* recorded amount from held and adds it to liabilities, and leaves available
ChargebackEffect ==
    (Last("Chargeback") /\ lastResult = Ok) =>
        /\ LastOwnsRecord
        /\ prev.deposit_states[lastTx.tx_id].state = Disputed
        /\ LET old == prev.accounts[lastTx.client_id]
               new == accounts[lastTx.client_id]
               amount == prev.deposit_states[lastTx.tx_id].amount
           IN  /\ deposit_states[lastTx.tx_id].state = ChargedBack
               /\ new.locked
               /\ new.held = old.held - amount
               /\ liabilities = prev.liabilities + amount
               /\ new.available = old.available

\* a chargeback succeeded on an account that keeps other money available
ChargebackEffectWitness ==
    /\ Last("Chargeback") /\ lastResult = Ok
    /\ accounts[lastTx.client_id].available > 0
    /\ prev.accounts[lastTx.client_id].held > accounts[lastTx.client_id].held

\* the last call was a Dispute, Resolve or Chargeback
LastIsLifecycle == lastTx.type \in {"Dispute", "Resolve", "Chargeback"}

\* the tx identifiers whose record was ChargedBack when the last call started
ChargedBackBefore ==
    {t \in DOMAIN prev.deposit_states : prev.deposit_states[t].state = ChargedBack}

\* C12 as claimed: a record that is ChargedBack is ChargedBack in the next
\* ledger state whatever the transaction, and no Dispute, Resolve or
\* Chargeback naming it succeeds
ChargedBackIsTerminal ==
    \A t \in ChargedBackBefore :
        /\ t \in DOMAIN deposit_states
        /\ deposit_states[t].state = ChargedBack
        /\ (LastIsLifecycle /\ lastTx.tx_id = t) => lastResult \in TxError

\* C12 as amended: a record that is ChargedBack stays as it is, and no
\* Dispute, Resolve or Chargeback naming it succeeds, until a Deposit reuses
\* its tx identifier (which replaces the record by a Resolved one)
ChargedBackTerminalUntilRedeposit ==
    \A t \in ChargedBackBefore :
        ~(Last("Deposit") /\ lastTx.tx_id = t) =>
            /\ t \in DOMAIN deposit_states
            /\ deposit_states[t] = prev.deposit_states[t]
            /\ (LastIsLifecycle /\ lastTx.tx_id = t) => lastResult \in TxError

\* the owner of a ChargedBack record tried to resolve it
ChargedBackTerminalWitness ==
    /\ Last("Resolve") /\ LastOwnsRecord
    /\ lastTx.tx_id \in ChargedBackBefore

\* the last call came from a client whose account existed and was locked
LastClientLocked ==
    /\ lastTx.client_id \in DOMAIN prev.accounts
    /\ prev.accounts[lastTx.client_id].locked

\* C13: after Chargeback(client, tx) has succeeded (the record is the
\* client's and ChargedBack), a later Resolve(client, tx) or
\* Chargeback(client, tx) fails with TxNotDisputed and changes nothing
AfterChargebackNotDisputed ==
    ( /\ lastTx.type \in {"Resolve", "Chargeback"}
      /\ LastOwnsRecord
      /\ lastTx.tx_id \in ChargedBackBefore ) =>
        lastResult = TxNotDisputed /\ Ledger = prev

\* C14: the lock bars only withdrawals -- on a locked account a Dispute of an
\* own Resolved record, and a Resolve or Chargeback of an own Disputed record,
\* still succeed
LockBarsOnlyWithdrawals ==
    ( /\ LastIsLifecycle
      /\ LastClientLocked
      /\ LastOwnsRecord
      /\ prev.deposit_states[lastTx.tx_id].state =
            (IF Last("Dispute") THEN Resolved ELSE Disputed) ) =>
        lastResult = Ok

LastNamesForeignRecord ==
    /\ lastTx.tx_id \in DOMAIN prev.deposit_states
    /\ prev.deposit_states[lastTx.tx_id].client_id # lastTx.client_id

WithdrawalsNeverDisputable ==
    /\ \A t \in TxIds \ depositedTx : t \notin DOMAIN deposit_states
    /\ Last("Withdrawal") => deposit_states = prev.deposit_states
    /\ ( /\ LastIsLifecycle
         /\ lastTx.tx_id \notin depositedTx
         /\ lastTx.client_id \in DOMAIN prev.accounts
         /\ ~prev.accounts[lastTx.client_id].locked ) =>
            lastResult = OriginTxNotFound
    /\ \A c \in DOMAIN accounts, t \in TxIds \ depositedTx :
          ~accounts[c].locked =>
              /\ execute(Ledger, Dispute(c, t)).result = OriginTxNotFound
              /\ execute(Ledger, Resolve(c, t)).result = OriginTxNotFound
              /\ execute(Ledger, Chargeback(c, t)).result = OriginTxNotFound

\* a withdrawal has just succeeded under a tx identifier no deposit carried,
\* and a dispute naming that identifier would not find it
WithdrawalsNeverDisputableWitness ==
    /\ Last("Withdrawal") /\ lastResult = Ok
    /\ lastTx.tx_id \notin depositedTx
    /\ execute(Ledger, Dispute(lastTx.client_id, lastTx.tx_id)).result
          = OriginTxNotFound

\* C18: accounts are created only by Deposit and never deleted -- the set of
\* accounts is exactly the set of clients a Deposit was executed for, it only
\* grows, no other transaction changes it, and Withdrawal, Dispute, Resolve
\* and Chargeback for a client without an account fail with
\* ClientAccountNotFound
AccountsOnlyByDeposit ==
    /\ DOMAIN accounts = depositedClients
    /\ DOMAIN prev.accounts \subseteq DOMAIN accounts
    /\ (Last("Withdrawal") \/ LastIsLifecycle) =>
          /\ DOMAIN accounts = DOMAIN prev.accounts
          /\ lastTx.client_id \notin DOMAIN prev.accounts =>
                lastResult = ClientAccountNotFound /\ Ledger = prev

\* a client without an account asked to charge back an existing deposit
AccountsOnlyByDepositWitness ==
    /\ Last("Chargeback")
    /\ lastTx.client_id \notin DOMAIN prev.accounts
    /\ lastTx.tx_id \in DOMAIN prev.deposit_states
    /\ prev.deposit_states[lastTx.tx_id].state = Disputed

\* transaction tx would succeed if it were executed in the current state
WouldSucceed(tx) == execute(Ledger, tx).result = Ok

\* C19 as claimed: in every reachable state, for every client and tx, at most
\* one of Dispute, Resolve and Chargeback would succeed
AtMostOneLifecycleSucceeds ==
    \A c \in ClientIds, t \in TxIds :
        /\ ~(WouldSucceed(Dispute(c, t)) /\ WouldSucceed(Resolve(c, t)))
        /\ ~(WouldSucceed(Dispute(c, t)) /\ WouldSucceed(Chargeback(c, t)))
        /\ ~(WouldSucceed(Resolve(c, t)) /\ WouldSucceed(Chargeback(c, t)))

\* C19 as amended: in every reachable state, for every client and tx, Dispute
\* would succeed only where neither Resolve nor Chargeback would, and Resolve
\* and Chargeback would succeed in exactly the same states
DisputeExcludesResolveAndChargeback ==
    \A c \in ClientIds, t \in TxIds :
        /\ ~(WouldSucceed(Dispute(c, t)) /\ WouldSucceed(Resolve(c, t)))
        /\ ~(WouldSucceed(Dispute(c, t)) /\ WouldSucceed(Chargeback(c, t)))
        /\ WouldSucceed(Resolve(c, t)) <=> WouldSucceed(Chargeback(c, t))

\* a dispute has just succeeded: Resolve and Chargeback of the same deposit
\* would both succeed now
LifecycleExclusivityWitness ==
    /\ Last("Dispute") /\ lastResult = Ok
    /\ WouldSucceed(Resolve(lastTx.client_id, lastTx.tx_id))
    /\ WouldSucceed(Chargeback(lastTx.client_id, lastTx.tx_id))
    /\ ~WouldSucceed(Dispute(lastTx.client_id, lastTx.tx_id))

\* C20: a Resolve executed right after a successful Dispute of the same
\* deposit succeeds and gives back the whole ledger as it was before the
\* Dispute; after a successful Resolve the pair Dispute, Resolve succeeds
\* again and gives back the ledger once more
DisputeResolveRoundTrip ==
    /\ (Last("Dispute") /\ lastResult = Ok) =>
           LET r == execute(Ledger, Resolve(lastTx.client_id, lastTx.tx_id))
           IN  r.result = Ok /\ r.ledger = prev
    /\ (Last("Resolve") /\ lastResult = Ok) =>
           LET d == execute(Ledger, Dispute(lastTx.client_id, lastTx.tx_id))
               r == execute(d.ledger, Resolve(lastTx.client_id, lastTx.tx_id))
           IN  /\ d.result = Ok
               /\ d.ledger # Ledger
               /\ r.result = Ok
               /\ r.ledger = Ledger

\* a dispute has been resolved, and the deposit can be disputed and resolved
\* once more with the ledger coming back unchanged
DisputeResolveRoundTripWitness ==
    /\ Last("Resolve") /\ lastResult = Ok
    /\ deposit_states[lastTx.tx_id].state = Resolved
    /\ LET d == execute(Ledger, Dispute(lastTx.client_id, lastTx.tx_id))
       IN  /\ d.result = Ok
           /\ execute(d.ledger, Resolve(lastTx.client_id, lastTx.tx_id)).ledger = Ledger

\* the last transaction was a deposit whose identifier already had a record
LastIsDuplicateDeposit ==
    Last("Deposit") /\ lastTx.tx_id \in DOMAIN prev.deposit_states

\* C21: a deposit whose transaction identifier already has a record succeeds,
\* credits available and liabilities as any deposit does, and replaces the
\* record with (depositing client, new amount, Resolved), whatever the old
\* record's owner, amount and state were; no other record changes
DuplicateDepositOverwrites ==
    LastIsDuplicateDeposit =>
        /\ lastResult = Ok
        /\ liabilities = prev.liabilities - lastTx.amount
        /\ accounts[lastTx.client_id].available =
               AccountOrNew(prev, lastTx.client_id).available + lastTx.amount
        /\ accounts[lastTx.client_id].held =
               AccountOrNew(prev, lastTx.client_id).held
        /\ deposit_states[lastTx.tx_id] =
               [client_id |-> lastTx.client_id, tx_id |-> lastTx.tx_id,
                amount |-> lastTx.amount, state |-> Resolved]
        /\ DOMAIN deposit_states = DOMAIN prev.deposit_states
        /\ \A t \in DOMAIN prev.deposit_states \ {lastTx.tx_id} :
               deposit_states[t] = prev.deposit_states[t]

\* a deposit has replaced a Disputed record of another client and amount
DuplicateDepositWitness ==
    /\ LastIsDuplicateDeposit
    /\ prev.deposit_states[lastTx.tx_id].state = Disputed
    /\ prev.deposit_states[lastTx.tx_id].client_id # lastTx.client_id
    /\ prev.deposit_states[lastTx.tx_id].amount # lastTx.amount
    /\ deposit_states[lastTx.tx_id].state = Resolved

\* the record of t went from state `from` to state `to` in the last step, as
\* the effect of a successful transaction of type ty that names t
LifecycleStep(t, ty, from, to) ==
    /\ Last(ty) /\ lastResult = Ok /\ lastTx.tx_id = t
    /\ prev.deposit_states[t].state = from
    /\ deposit_states[t].state = to

\* the record of t is kept by the last step: same owner and amount, and a
\* state that changed only by a successful Dispute, Resolve or Chargeback of t
RecordKept(t) ==
    /\ t \in DOMAIN deposit_states
    /\ deposit_states[t].client_id = prev.deposit_states[t].client_id
    /\ deposit_states[t].amount = prev.deposit_states[t].amount
    /\ deposit_states[t].tx_id = prev.deposit_states[t].tx_id
    /\ \/ deposit_states[t].state = prev.deposit_states[t].state
       \/ LifecycleStep(t, "Dispute", Resolved, Disputed)
       \/ LifecycleStep(t, "Resolve", Disputed, Resolved)
       \/ LifecycleStep(t, "Chargeback", Disputed, ChargedBack)

\* C22 as claimed: an existing record is never removed, never changes owner
\* or amount, and changes state only by a successful Dispute, Resolve or
\* Chargeback that names it
RecordsChangeOnlyByLifecycle ==
    \A t \in DOMAIN prev.deposit_states : RecordKept(t)

\* C22 as amended: the same, except that a Deposit naming the record's
\* identifier replaces it with (depositing client, amount, Resolved)
RecordsChangeOnlyByLifecycleOrRedeposit ==
    \A t \in DOMAIN prev.deposit_states :
        IF Last("Deposit") /\ lastTx.tx_id = t
        THEN /\ t \in DOMAIN deposit_states
             /\ deposit_states[t] =
                    DepositStateNew(lastTx.client_id, t, lastTx.amount)
        ELSE RecordKept(t)

\* a chargeback has moved one record from Disputed to ChargedBack and has
\* left the other record as it was
RecordKeptWitness ==
    /\ LifecycleStep(lastTx.tx_id, "Chargeback", Disputed, ChargedBack)
    /\ \E t \in DOMAIN prev.deposit_states \ {lastTx.tx_id} :
           deposit_states[t] = prev.deposit_states[t]

\* the five recognised tags
Tags == {DEPOSIT_TAG, WITHDRAWAL_TAG, DISPUTE_TAG, RESOLVE_TAG, CHARGEBACK_TAG}

\* the transaction type a tag stands for
TypeOfTag(tag) ==
    CASE tag = "deposit" -> "Deposit"
      [] tag = "withdrawal" -> "Withdrawal"
      [] tag = "dispute" -> "Dispute"
      [] tag = "resolve" -> "Resolve"
      [] tag = "chargeback" -> "Chargeback"

\* a TransactionLog has been fetched and converted
LogConverted == "tx_type" \in DOMAIN fetched_tx /\ converted # NoRow

\* C23: a deposit or withdrawal record with no amount yields MissingAmount; a
\* record whose type is none of the five tags (case-sensitive) yields
\* InvalidTxType with or without an amount; dispute, resolve and chargeback
\* records convert with or without an amount and carry only client and tx;
\* any other record converts to a transaction with exactly its client, tx
\* and amount
ConversionOutcome ==
    LogConverted =>
        LET log == fetched_tx
            money == log.tx_type \in {"deposit", "withdrawal"}
        IN  /\ (money /\ log.amount = <<>>) =>
                   converted = [ok |-> FALSE, error |-> "MissingAmount"]
            /\ log.tx_type \notin Tags =>
                   converted = [ok |-> FALSE, error |-> "InvalidTxType"]
            /\ log.tx_type \in {"dispute", "resolve", "chargeback"} =>
                   /\ converted.ok
                   /\ converted.value =
                          [type |-> TypeOfTag(log.tx_type),
                           client_id |-> log.client_id, tx_id |-> log.tx_id]
            /\ (money /\ log.amount # <<>>) =>
                   /\ converted.ok
                   /\ converted.value =
                          [type |-> TypeOfTag(log.tx_type),
                           client_id |-> log.client_id, tx_id |-> log.tx_id,
                           amount |-> log.amount[1]]

\* a record of type "Deposit" that carries an amount has been refused as
\* InvalidTxType
ConversionWitness ==
    /\ LogConverted
    /\ fetched_tx.tx_type = "Deposit"
    /\ fetched_tx.amount # <<>>
    /\ converted = [ok |-> FALSE, error |-> "InvalidTxType"]

\* the transactions of the rows that decode, in the order of the rows
RECURSIVE Transactions(_)
Transactions(rows) ==
    IF rows = <<>> THEN <<>>
    ELSE LET d == Decode(Head(rows))
         IN  (IF d.ok THEN <<d.value>> ELSE <<>>) \o Transactions(Tail(rows))

\* the rows read_data has fetched so far
Fetched == SubSeq(input, 1, next_record)

\* the transaction read_data is about to send, the transaction main is about
\* to execute
Sending   == IF producer = "send" THEN <<converted.value>> ELSE <<>>
Executing == IF main = "execute" THEN <<received>> ELSE <<>>

\* C24: under every interleaving of read_data and main, the transactions
\* passed to Ledger::execute, followed by those still on their way (received,
\* queued, about to be sent), are the decoded records in input order; when
\* main has finished, the executed sequence is that of the whole input
ArrivalOrderPreserved ==
    /\ executed \o Executing \o channel \o Sending = Transactions(Fetched)
    /\ main \in {"output", "returned"} => executed = Transactions(input)

\* main has finished after executing the three transactions of its input, a
\* deposit between two disputes
ArrivalOrderWitness ==
    /\ main = "returned"
    /\ Len(executed) = 3
    /\ executed[1] # executed[2]
    /\ executed[2] # executed[3]
    /\ executed = Transactions(input)

\* a row that decodes: it deserializes, its type is one of the five tags, and
\* it has an amount if it is a deposit or a withdrawal
WellFormed(row) ==
    /\ row # DeserializeError
    /\ row.tx_type \in Tags
    /\ row.tx_type \in {"deposit", "withdrawal"} => row.amount # <<>>

\* how many of the first n rows of the input are well-formed
WellFormedUpTo(n) == Cardinality({i \in 1..n : WellFormed(input[i])})

\* the transaction a well-formed row stands for
TransactionOf(row) ==
    IF row.tx_type \in {"deposit", "withdrawal"}
    THEN [type |-> TypeOfTag(row.tx_type), client_id |-> row.client_id,
          tx_id |-> row.tx_id, amount |-> row.amount[1]]
    ELSE [type |-> TypeOfTag(row.tx_type), client_id |-> row.client_id,
          tx_id |-> row.tx_id]

\* C25: a row that fails decoding is never enqueued and never executed (what
\* is enqueued and executed are the transactions of well-formed rows, one for
\* each such row fetched), and it does not stop ingestion: read_data returns
\* only at the end of the input, with every well-formed row enqueued, and
\* main ends with every one of them executed
FailedRowsAreSkipped ==
    /\ \A i \in 1..Len(enqueued) :
           \E k \in 1..next_record :
               WellFormed(input[k]) /\ enqueued[i] = TransactionOf(input[k])
    /\ \A i \in 1..Len(executed) :
           \E k \in 1..next_record :
               WellFormed(input[k]) /\ executed[i] = TransactionOf(input[k])
    /\ Len(enqueued) + Len(Sending) = WellFormedUpTo(next_record)
    /\ (next_record > 0 /\ ~WellFormed(input[next_record])) => producer # "send"
    /\ producer = "returned" =>
           /\ next_record = Len(input)
           /\ Len(enqueued) = WellFormedUpTo(Len(input))
    /\ main = "returned" => Len(executed) = WellFormedUpTo(Len(input))

\* main has finished on an input whose first row fails to decode and whose
\* later rows are well-formed and were executed
FailedRowsWitness ==
    /\ main = "returned"
    /\ Len(input) = 3
    /\ ~WellFormed(input[1])
    /\ WellFormed(input[2]) /\ WellFormed(input[3])
    /\ executed = <<TransactionOf(input[2]), TransactionOf(input[3])>>

\* C26: every decoded transaction is executed exactly once -- what has been
\* enqueued is what has been executed followed by what main holds and what is
\* still queued, so nothing is lost, executed twice or, once rejected, put
\* back; and when main has finished, every enqueued transaction has been
\* executed, whatever was rejected on the way
ExecutedExactlyOnce ==
    /\ enqueued = executed \o Executing \o channel
    /\ Len(executed) <= Len(input)
    /\ (lastResult \in TxError /\ main # "execute") =>
           /\ executed[Len(executed)] = lastTx
           /\ Len(channel) = Len(enqueued) - Len(executed)
    /\ main = "returned" =>
           /\ executed = enqueued
           /\ Len(executed) = WellFormedUpTo(Len(input))

\* main has finished; its first transaction was rejected and its last one
\* was applied
ExecutedExactlyOnceWitness ==
    /\ main = "returned"
    /\ Len(executed) = 3
    /\ execute(LedgerNew, executed[1]).result \in TxError
    /\ lastTx = executed[3]
    /\ lastResult = Ok

\* the ledger after executing the transactions txs, in order, on ledger l
RECURSIVE Replay(_, _)
Replay(l, txs) ==
    IF txs = <<>> THEN l ELSE Replay(execute(l, Head(txs)).ledger, Tail(txs))

\* C27: output_data is called only after read_data has closed the queue and
\* every enqueued transaction has been dequeued and applied; the report shows
\* the accounts of the ledger on which the whole input has been executed
ReportOnlyAfterDrain ==
    (main \in {"output", "returned"} \/ reported # <<>>) =>
        /\ producer = "returned"
        /\ next_record = Len(input)
        /\ channel = <<>>
        /\ received = NoRow
        /\ executed = enqueued
        /\ Ledger = Replay(LedgerNew, Transactions(input))
        /\ reported # <<>> => reported[1] = AccountLogs(accounts)

\* the report has been written after three transactions went through the
\* queue, and it shows an account
ReportWitness ==
    /\ main = "returned"
    /\ Len(reported) = 1
    /\ reported[1] # {}
    /\ Len(enqueued) = 3
    /\ reported[1] = AccountLogs(Replay(LedgerNew, enqueued).accounts)

\* read_data has not returned and cannot take a step
ProducerSuspended == producer # "returned" /\ ~ENABLED Producer

\* read_data is at sender.send and the queue is full
SendOnFullQueue == producer = "send" /\ Len(channel) = CHANNEL_SIZE

NoAccount == lastTx.client_id \notin DOMAIN prev.accounts
AccountIsLocked == ~NoAccount /\ prev.accounts[lastTx.client_id].locked
NoOwnRecord ==
    \/ lastTx.tx_id \notin DOMAIN prev.deposit_states
    \/ prev.deposit_states[lastTx.tx_id].client_id # lastTx.client_id
WrongState ==
    /\ lastTx.tx_id \in DOMAIN prev.deposit_states
    /\ prev.deposit_states[lastTx.tx_id].state #
           (IF Last("Dispute") THEN Resolved ELSE Disputed)

MainSuspended == main # "returned" /\ ~ENABLED Main

\* the pipeline has come to its end: read_data has returned, main has
\* executed the whole input and returned after one report
PipelineDone ==
    /\ producer = "returned"
    /\ main = "returned"
    /\ channel = <<>>
    /\ executed = Transactions(input)
    /\ Len(reported) = 1

\* C30: for every finite input, with read_data and main scheduled fairly,
\* read_data eventually returns and drops its sender, main eventually leaves
\* its loop with the whole input applied and reports, the report is written
\* exactly once, and read_data and main are never both suspended
PipelineTerminates ==
    /\ <>(producer = "returned")
    /\ <>[]PipelineDone
    /\ [](Len(reported) <= 1)
    /\ []~(ProducerSuspended /\ MainSuspended)

\* the pipeline has come to its end on an input of three well-formed rows
PipelineTerminatesWitness ==
    /\ PipelineDone
    /\ Len(input) = 3
    /\ WellFormedUpTo(3) = 3
    /\ Len(executed) = 3

\* C31: the amounts of the input being non-negative, the held balance of
\* every account is >= 0 in every reachable state, deposits that reuse a
\* transaction identifier included; only available can be negative
HeldNeverNegative ==
    /\ \A a \in Amounts : a >= 0
    /\ \A c \in DOMAIN accounts : accounts[c].held >= 0

\* a transaction identifier has been deposited twice and disputed twice, so
\* that more is held than its record accounts for
HeldNeverNegativeWitness ==
    /\ nDeposits = 2
    /\ Cardinality(depositedTx) = 1
    /\ \E c \in DOMAIN accounts, t \in DOMAIN deposit_states :
           /\ deposit_states[t].client_id = c
           /\ deposit_states[t].state = Disputed
           /\ accounts[c].held > deposit_states[t].amount

\* the sum of the amounts of the records with the identifiers S
RECURSIVE SumAmounts(_)
SumAmounts(S) ==
    IF S = {} THEN 0
    ELSE LET t == CHOOSE x \in S : TRUE
         IN  deposit_states[t].amount + SumAmounts(S \ {t})

\* the identifiers of the records that client c owns and that are Disputed
DisputedOf(c) ==
    {t \in DOMAIN deposit_states :
        deposit_states[t].client_id = c /\ deposit_states[t].state = Disputed}

\* no two Deposit transactions executed so far share a transaction identifier
NoRedeposit == nDeposits = Cardinality(depositedTx)

\* C32: as long as no two Deposit transactions share a transaction
\* identifier, the held balance of every account is the sum of the amounts of
\* the client's records that are Disputed
HeldIsSumOfDisputed ==
    NoRedeposit =>
        \A c \in DOMAIN accounts : accounts[c].held = SumAmounts(DisputedOf(c))

\* one client has two deposits under dispute, and holds the sum of both
HeldIsSumOfDisputedWitness ==
    /\ NoRedeposit
    /\ \E c \in DOMAIN accounts :
           /\ Cardinality(DisputedOf(c)) = 2
           /\ accounts[c].held = SumAmounts(DisputedOf(c))
           /\ accounts[c].held >= 2

DisputedRecordsHaveAccounts ==
    \A t \in DOMAIN deposit_states :
        /\ deposit_states[t].state \in {Disputed, ChargedBack} =>
               deposit_states[t].client_id \in DOMAIN accounts
        /\ deposit_states[t].state = ChargedBack =>
               /\ deposit_states[t].client_id \in DOMAIN accounts
               /\ accounts[deposit_states[t].client_id].locked

\* one client's deposit is charged back and its account locked, another
\* client's deposit is under dispute and its account unlocked
DisputedRecordsWitness ==
    \E t, u \in DOMAIN deposit_states :
        /\ deposit_states[t].state = ChargedBack
        /\ deposit_states[u].state = Disputed
        /\ deposit_states[t].client_id # deposit_states[u].client_id
        /\ accounts[deposit_states[t].client_id].locked
        /\ ~accounts[deposit_states[u].client_id].locked

\* C36: a transaction that names client c, applied or rejected, leaves the
\* account of every other client as it was and creates no account but c's; a
\* Dispute, Resolve or Chargeback changes no deposit record but that of its
\* own tx
ClientIsolation ==
    lastTx.type # "None" =>
        /\ DOMAIN accounts \subseteq DOMAIN prev.accounts \cup {lastTx.client_id}
        /\ \A c \in DOMAIN prev.accounts \ {lastTx.client_id} :
               /\ c \in DOMAIN accounts
               /\ accounts[c].available = prev.accounts[c].available
               /\ accounts[c].held = prev.accounts[c].held
               /\ accounts[c].locked = prev.accounts[c].locked
        /\ LastIsLifecycle =>
               /\ DOMAIN deposit_states = DOMAIN prev.deposit_states
               /\ \A t \in DOMAIN prev.deposit_states \ {lastTx.tx_id} :
                      deposit_states[t] = prev.deposit_states[t]

\* a chargeback has succeeded for one client while another client had funds
\* held under a dispute of its own
ClientIsolationWitness ==
    /\ Last("Chargeback") /\ lastResult = Ok
    /\ \E c \in DOMAIN prev.accounts \ {lastTx.client_id} :
           /\ prev.accounts[c].held > 0
           /\ accounts[c] = prev.accounts[c]
    /\ \E t \in DOMAIN prev.deposit_states \ {lastTx.tx_id} :
           deposit_states[t].state = Disputed

====
